---- MODULE Spec2Model ----
(***************************************************************************)
(* A model of the sliding-puzzle state machine (PuzzleState) and of the    *)
(* flocking simulation tick (Boid.update, Game.update).                    *)
(*                                                                         *)
(* Arrays are functions over 0-based indices, as in the source.            *)
(***************************************************************************)
EXTENDS Integers, Sequences, FiniteSets, TLC

VARIABLES
    grid,        \* PuzzleState.grid: row -> col -> TileId
    prevGrid,    \* history: the grid before the last call
    lastCall,    \* history: the last call, [op, args]
    shuffleLog,  \* history: one entry per move attempt of the last shuffle
    ops,         \* history: number of calls made so far
    boids,            \* Game.boids: every Boid, group after group
    mousePosition,    \* Game.mousePosition
    isCircularFlow,   \* Game.isCircularFlow
    tickLog,          \* history: what the last tick did to each boid
    ticks,            \* history: number of ticks run so far
    vec,         \* a Vector object whose methods are called
    call,        \* history: the last method or handler call and what it did
    tiles,       \* Game.tiles: tile id -> the (row, col) the tile is shown at
    copy         \* the grid a caller of getGrid() holds, once it has called it

puzzleVars == <<grid, prevGrid, lastCall, shuffleLog, ops>>

simVars == <<boids, mousePosition, isCircularFlow, tickLog, ticks>>

callVars == <<vec, call>>

viewVars == <<tiles, copy>>

vars == <<grid, prevGrid, lastCall, shuffleLog, ops,
          boids, mousePosition, isCircularFlow, tickLog, ticks, vec, call,
          tiles, copy>>

----------------------------------------------------------------------------
(* Bounds of the model. *)

\* number of calls on the PuzzleState in one behaviour
MaxOps == 3

\* largest `times` argument given to shuffle
MaxTimes == 2

\* the number of moves of the shuffle() that handleShuffle calls: the
\* default of `times`, 50 in the source, cut down to an even number as small
\* as keeps the parity of 50
DefaultTimes == 2

\* Math.random() takes the values k / RandRes, k in 0 .. RandRes-1
RandRes == 4

\* number of ticks (runs of Game.update) in one behaviour
MaxTicks == 2

\* number of colour groups and of boids in each
NumColors == 2

BoidsPerColor == 2

\* number of method calls made on a Boid, or on a Vector, in one behaviour
MaxCalls == 2

\* numbers are fixed-point: the integer k stands for k / Scale.  A product
\* of two such numbers that the code only compares or takes the root of is
\* kept exact, in units of 1 / Scale^2.
Scale == 100

----------------------------------------------------------------------------
(* PuzzleState *)

\* TileId = number | null: null is encoded as -1
Null == -1

rows == 3

cols == 3

\* findTilePosition's `return null`
NoPos == << >>

Abs(n) == IF n < 0 THEN -n ELSE n

\* a three-element array literal [a, b, c]
Arr3(a, b, c) == [i \in 0..2 |-> IF i = 0 THEN a ELSE IF i = 1 THEN b ELSE c]

\* the constructor's grid literal
NewGrid == Arr3(Arr3(0, 1, 2), Arr3(3, 4, 5), Arr3(6, 7, Null))

indexToPos(index) == <<index \div cols, index % cols>>

posToIndex(row, col) == row * cols + col

\* mutant: the outer array is copied but its rows are not, as [...this.grid]
getGrid_ShallowCopy(g) ==
    [held |-> TRUE, cells |-> g, sharedArray |-> FALSE, sharedRows |-> 0..(rows - 1)]

\* getGrid: this.grid.map(row => [...row]).  map builds a new outer array
\* and the spread a new array for every row, so the value returned has the
\* grid's cells and shares no array with this.grid.  sharedArray tells
\* whether the outer array returned is this.grid itself, sharedRows which of
\* its rows are the very row arrays of this.grid.
getGrid(g) ==
    [held |-> TRUE, cells |-> g, sharedArray |-> FALSE, sharedRows |-> {}]

\* a caller's `returned[row][col] = value` on the array getGrid returned:
\* the grid and the caller's array afterwards.  The write reaches this.grid
\* when the row written is one of its row arrays.
writeCell(g, c, row, col, value) ==
    [grid |-> IF row \in c.sharedRows THEN [g EXCEPT ![row][col] = value] ELSE g,
     copy |-> [c EXCEPT !.cells[row][col] = value]]

\* a caller's `returned[row] = newRow` on the array getGrid returned.  The
\* write reaches this.grid when the array returned is this.grid itself.
writeRow(g, c, row, newRow) ==
    [grid |-> IF c.sharedArray THEN [g EXCEPT ![row] = newRow] ELSE g,
     copy |-> [c EXCEPT !.cells[row] = newRow,
                        !.sharedRows = IF c.sharedArray THEN @ \cup {row}
                                       ELSE @ \ {row}]]

\* the caller's array after the grid became g: moveTile writes into the row
\* arrays of this.grid, so the rows shared with it show the new cells
seenThrough(c, g) ==
    IF c.held
    THEN [c EXCEPT !.cells = [row \in 0..(rows - 1) |->
                                 IF row \in c.sharedRows THEN g[row] ELSE c.cells[row]]]
    ELSE c

\* getFlatGrid: this.grid.flat(), as a 0-based array
getFlatGrid(g) == [k \in 0..(rows * cols - 1) |-> g[indexToPos(k)[1]][indexToPos(k)[2]]]

\* the first cell in row-major order holding tileId, or null
findTilePosition(g, tileId) ==
    LET hits == {k \in 0..(rows * cols - 1) :
                    g[indexToPos(k)[1]][indexToPos(k)[2]] = tileId}
    IN  IF hits = {} THEN NoPos
        ELSE indexToPos(CHOOSE k \in hits : \A j \in hits : k <= j)

\* findEmptySlot throws 'Empty slot not found' exactly when this holds
findEmptySlotThrows(g) == findTilePosition(g, Null) = NoPos

findEmptySlot(g) == findTilePosition(g, Null)

\* mutant: the distance test accepts the empty cell itself
canMove_AtMostOne(g, tileRow, tileCol) ==
    LET empty == findEmptySlot(g)
        dx == Abs(tileCol - empty[2])
        dy == Abs(tileRow - empty[1])
    IN  dx + dy <= 1

\* mutant: each axis is tested alone, so diagonal cells are accepted
canMove_Diagonal(g, tileRow, tileCol) ==
    LET empty == findEmptySlot(g)
        dx == Abs(tileCol - empty[2])
        dy == Abs(tileRow - empty[1])
    IN  dx <= 1 /\ dy <= 1 /\ dx + dy >= 1

canMove(g, tileRow, tileCol) ==
    LET empty == findEmptySlot(g)
        dx == Abs(tileCol - empty[2])
        dy == Abs(tileRow - empty[1])
    IN  dx + dy = 1

\* mutant: the source cell is emptied with row and column exchanged
moveTile_Transposed(g, tileRow, tileCol) ==
    LET empty == findEmptySlot(g)
    IN  IF ~canMove(g, tileRow, tileCol) THEN g
        ELSE LET tileId == g[tileRow][tileCol]
                 g1 == [g EXCEPT ![empty[1]][empty[2]] = tileId]
             IN  [g1 EXCEPT ![tileCol][tileRow] = Null]

\* mutant: the early return on !canMove is missing
moveTile_NoGuard(g, tileRow, tileCol) ==
    LET empty == findEmptySlot(g)
        tileId == g[tileRow][tileCol]
        g1 == [g EXCEPT ![empty[1]][empty[2]] = tileId]
    IN  [g1 EXCEPT ![tileRow][tileCol] = Null]

\* mutant: the tile id is read from the empty slot instead of the source cell
moveTile_ReadsEmpty(g, tileRow, tileCol) ==
    LET empty == findEmptySlot(g)
    IN  IF ~canMove(g, tileRow, tileCol) THEN g
        ELSE LET tileId == g[empty[1]][empty[2]]
                 g1 == [g EXCEPT ![empty[1]][empty[2]] = tileId]
             IN  [g1 EXCEPT ![tileRow][tileCol] = Null]

\* mutant: the source cell is not emptied after the tile is copied
moveTile_KeepsSource(g, tileRow, tileCol) ==
    LET empty == findEmptySlot(g)
    IN  IF ~canMove(g, tileRow, tileCol) THEN g
        ELSE LET tileId == g[tileRow][tileCol]
             IN  [g EXCEPT ![empty[1]][empty[2]] = tileId]

moveTile(g, tileRow, tileCol) ==
    LET empty == findEmptySlot(g)
    IN  IF ~canMove(g, tileRow, tileCol) THEN g
        ELSE LET tileId == g[tileRow][tileCol]
                 g1 == [g EXCEPT ![empty[1]][empty[2]] = tileId]
             IN  [g1 EXCEPT ![tileRow][tileCol] = Null]

\* the value JavaScript reads from an array index that was never written
Undefined == -2

\* this.grid[row][col] for a row the grid has: undefined outside the row
elementAt(g, row, col) == IF col \in DOMAIN g[row] THEN g[row][col] ELSE Undefined

\* this.grid[row][col] = value for a row the grid has: an index the row does
\* not have is added to it
assignElement(g, row, col, value) ==
    [g EXCEPT ![row] = [c \in (DOMAIN g[row]) \cup {col} |->
                            IF c = col THEN value ELSE g[row][c]]]

\* moveTile's two assignments
swapIntoEmpty(g, empty, tileRow, tileCol) ==
    assignElement(assignElement(g, empty[1], empty[2], elementAt(g, tileRow, tileCol)),
                  tileRow, tileCol, Null)

\* moveTile(tileRow, tileCol) for any two integers: the grid it leaves and
\* the error it throws, if any.  findEmptySlot throws when no cell of the
\* 3x3 grid is null; this.grid[tileRow] is undefined for a row the grid does
\* not have, and reading [tileCol] of undefined throws a TypeError.
moveTileAnywhere(g, tileRow, tileCol) ==
    IF findEmptySlotThrows(g)
    THEN [grid |-> g, threw |-> "Empty slot not found"]
    ELSE IF ~canMove(g, tileRow, tileCol)
    THEN [grid |-> g, threw |-> "none"]
    ELSE IF tileRow \notin DOMAIN g
    THEN [grid |-> g, threw |-> "TypeError"]
    ELSE [grid |-> swapIntoEmpty(g, findEmptySlot(g), tileRow, tileCol),
          threw |-> "none"]

\* canMove(tileRow, tileCol) for any two integers: its result and the error
\* it throws, if any
canMoveAnywhere(g, tileRow, tileCol) ==
    IF findEmptySlotThrows(g)
    THEN [result |-> FALSE, threw |-> "Empty slot not found"]
    ELSE [result |-> canMove(g, tileRow, tileCol), threw |-> "none"]

\* the loop of isSolved from cell k (row-major) on, with the running `expected`
RECURSIVE isSolvedFrom(_, _, _)
isSolvedFrom(g, k, expected) ==
    IF k >= rows * cols THEN TRUE
    ELSE LET row == indexToPos(k)[1]
             col == indexToPos(k)[2]
         IN  IF row = 2 /\ col = 2
             THEN IF g[row][col] # Null THEN FALSE
                  ELSE isSolvedFrom(g, k + 1, expected)
             ELSE IF g[row][col] # expected THEN FALSE
                  ELSE isSolvedFrom(g, k + 1, expected + 1)

\* mutant: the tiles are expected to be numbered from 1
isSolved_FromOne(g) == isSolvedFrom(g, 0, 1)

isSolved(g) == isSolvedFrom(g, 0, 0)

\* the flat grid without the null entries, as a sequence
RECURSIVE filterNonNull(_, _)
filterNonNull(flat, k) ==
    IF k >= rows * cols THEN << >>
    ELSE (IF flat[k] # Null THEN <<flat[k]>> ELSE << >>) \o filterNonNull(flat, k + 1)

countInversions(g) ==
    LET flatGrid == filterNonNull(getFlatGrid(g), 0)
    IN  Cardinality({p \in (1..Len(flatGrid)) \X (1..Len(flatGrid)) :
                        p[1] < p[2] /\ flatGrid[p[1]] > flatGrid[p[2]]})

\* mutant: a grid counts as solvable when its inversion count is odd
isSolvable_Odd(g) == countInversions(g) % 2 = 1

isSolvable(g) == countInversions(g) % 2 = 0

\* mutant: the first candidate is the cell diagonally above the slot
aroundEmpty_Typo(emptyRow, emptyCol) ==
    << <<emptyRow - 1, emptyCol - 1>>, <<emptyRow + 1, emptyCol>>,
       <<emptyRow, emptyCol - 1>>, <<emptyRow, emptyCol + 1>> >>

\* the four cells around the empty slot, in the order shuffle lists them
aroundEmpty(emptyRow, emptyCol) ==
    << <<emptyRow - 1, emptyCol>>, <<emptyRow + 1, emptyCol>>,
       <<emptyRow, emptyCol - 1>>, <<emptyRow, emptyCol + 1>> >>

\* shuffle's `neighbors`: the cells around the empty slot kept by the filter
neighborsOf(g) ==
    LET empty == findEmptySlot(g)
        keep(p) == /\ p[1] >= 0 /\ p[1] < rows
                   /\ p[2] >= 0 /\ p[2] < cols
                   /\ g[p[1]][p[2]] # Null
    IN  SelectSeq(aroundEmpty(empty[1], empty[2]), keep)

\* Math.floor(Math.random() * n) for Math.random() = rnd / RandRes
randomIndex(rnd, n) == (rnd * n) \div RandRes

\* one move attempt of shuffle (the body of `if (neighbors.length > 0)` and
\* its skipped alternative), as the record of what it did
shuffleAttempt(g, rnd, isFixup) ==
    LET neighbors == neighborsOf(g)
    IN  IF Len(neighbors) > 0
        THEN LET target == neighbors[randomIndex(rnd, Len(neighbors)) + 1]
             IN  [before |-> g, fixup |-> isFixup, skipped |-> FALSE,
                  target |-> target,
                  accepted |-> canMove(g, target[1], target[2]),
                  after |-> moveTile(g, target[1], target[2])]
        ELSE [before |-> g, fixup |-> isFixup, skipped |-> TRUE,
              target |-> NoPos, accepted |-> FALSE, after |-> g]

\* the runs of shuffle's for loop from iteration i on: a set of logs
RECURSIVE shuffleLoop(_, _, _)
shuffleLoop(g, i, times) ==
    IF i >= times THEN {<< >>}
    ELSE UNION { { <<a>> \o rest : rest \in shuffleLoop(a.after, i + 1, times) } :
                 a \in {shuffleAttempt(g, rnd, FALSE) : rnd \in 0..(RandRes - 1)} }

gridAfter(g, log) == IF Len(log) = 0 THEN g ELSE log[Len(log)].after

\* the runs of shuffle(times): the loop, then the solvability correction
shuffle(g, times) ==
    UNION { LET g1 == gridAfter(g, log)
            IN  IF ~isSolvable(g1)
                THEN {log \o <<shuffleAttempt(g1, rnd, TRUE)>> : rnd \in 0..(RandRes - 1)}
                ELSE {log}
            : log \in shuffleLoop(g, 0, times) }

----------------------------------------------------------------------------
(* Numbers *)

\* division of JavaScript numbers on the fixed-point grid: rounds toward zero
Quot(a, b) ==
    IF b < 0 THEN (IF a >= 0 THEN -(a \div (-b)) ELSE (-a) \div (-b))
    ELSE (IF a >= 0 THEN a \div b ELSE -((-a) \div b))

\* the largest r in lo..hi with r * r <= n
RECURSIVE SqrtSearch(_, _, _)
SqrtSearch(n, lo, hi) ==
    IF lo >= hi THEN lo
    ELSE LET mid == (lo + hi + 1) \div 2
             fits == mid * mid <= n
         IN  SqrtSearch(n, IF fits THEN mid ELSE lo, IF fits THEN hi ELSE mid - 1)

\* Math.sqrt of a number given in units of 1 / Scale^2, rounded down
Sqrt(n) == SqrtSearch(n, 0, 46340)

\* e^t for t >= 0 by its power series: the terms from t^k / k! on
RECURSIVE ExpSeries(_, _, _)
ExpSeries(t, k, term) ==
    IF term = 0 THEN 0
    ELSE term + ExpSeries(t, k + 1, Quot(term * t, Scale * (k + 1)))

\* Math.exp(-t) for t >= 0, as 1 / e^t
ExpNeg(t) == Quot(Scale * Scale, ExpSeries(t, 0, Scale))

----------------------------------------------------------------------------
(* Vector *)

Vec(x, y) == [x |-> x, y |-> y]

add(v, w) == Vec(v.x + w.x, v.y + w.y)

sub(v, w) == Vec(v.x - w.x, v.y - w.y)

mult(v, n) == Vec(Quot(v.x * n, Scale), Quot(v.y * n, Scale))

div(v, n) == IF n = 0 THEN v ELSE Vec(Quot(v.x * Scale, n), Quot(v.y * Scale, n))

mag(v) == Sqrt(v.x * v.x + v.y * v.y)

\* normalize once m = this.mag() is known
normalizeBy(v, m) == IF m # 0 THEN div(v, m) ELSE v

normalize(v) == normalizeBy(v, mag(v))

setMag(v, n) == mult(normalize(v), n)

limit(v, max) ==
    LET mSq == v.x * v.x + v.y * v.y
    IN  IF mSq > max * max THEN mult(normalize(v), max) ELSE v

dist(v, w) == Sqrt((v.x - w.x) * (v.x - w.x) + (v.y - w.y) * (v.y - w.y))

\* Math.PI / 2.  Angles are in degrees and only as fine as the code's
\* comparisons need: an angle is 0, 45 (acute), 90, 135 (obtuse) or 180, signed.
HalfPi == 90

\* Math.acos of dot / (mag1 * mag2), the vectors being parallel iff cross = 0
acosOf(dot, cross) ==
    IF dot > 0 THEN (IF cross = 0 THEN 0 ELSE HalfPi \div 2)
    ELSE IF dot = 0 THEN HalfPi
    ELSE (IF cross = 0 THEN 2 * HalfPi ELSE HalfPi + HalfPi \div 2)

\* mutant: the test for a zero magnitude is missing
angleBetween_NoZeroTest(v, other) ==
    LET angle == acosOf(v.x * other.x + v.y * other.y, v.x * other.y - v.y * other.x)
        cross == v.x * other.y - v.y * other.x
    IN  IF cross >= 0 THEN angle ELSE -angle

angleBetween(v, other) ==
    LET dot == v.x * other.x + v.y * other.y
        mag1 == mag(v)
        mag2 == mag(other)
    IN  IF mag1 = 0 \/ mag2 = 0 THEN 0
        ELSE LET angle == acosOf(dot, v.x * other.y - v.y * other.x)
                 cross == v.x * other.y - v.y * other.x
             IN  IF cross >= 0 THEN angle ELSE -angle

\* Math.atan2(y, x): the signed angle from the x axis to (x, y)
atan2(y, x) ==
    IF x = 0 /\ y = 0 THEN 0
    ELSE IF y >= 0 THEN acosOf(x, y) ELSE -acosOf(x, y)

\* cos and sin of k eighths of a turn
CosSin(k) ==
    LET d == Quot(7071 * Scale, 10000)
    IN  CASE k = 0 -> Vec(Scale, 0)
          [] k = 1 -> Vec(d, d)
          [] k = 2 -> Vec(0, Scale)
          [] k = 3 -> Vec(-d, d)
          [] k = 4 -> Vec(-Scale, 0)
          [] k = 5 -> Vec(-d, -d)
          [] k = 6 -> Vec(0, -Scale)
          [] OTHER -> Vec(d, -d)

\* Vector.random2D() for Math.random() = k / 8
random2D(k) == CosSin(k)

----------------------------------------------------------------------------
(* Boid *)

PERCEPTION_RADIUS == 150

SEPARATION_RADIUS == 40

\* the fields' initial values 0.1 and 3
maxForce == Quot(Scale, 10)

maxSpeed == 3 * Scale

\* window.innerWidth and window.innerHeight, in pixels
innerWidth == 300

innerHeight == 200

\* a pixel count or other whole number as a fixed-point number
Px(n) == n * Scale

\* new Boid(x, y, color) with Vector.random2D() drawn as random2D(k)
NewBoid(x, y, color, k) ==
    [position |-> Vec(x, y),
     velocity |-> setMag(random2D(k), maxSpeed),
     acceleration |-> Vec(0, 0),
     rotation |-> 0,
     color |-> color]

\* an argument that may be absent (null or undefined): << >> when absent,
\* <<value>> when given
Absent == << >>

Given(value) == <<value>>

\* applyForce throws 'Force vector is required' exactly when this holds
applyForceThrows(forceArg) == forceArg = Absent

\* mutant: the force replaces the acceleration instead of being added to it
applyForce_Assigns(b, force) == [b EXCEPT !.acceleration = force]

applyForce(b, force) == [b EXCEPT !.acceleration = add(b.acceleration, force)]

wrappedDistance(b, other) ==
    LET dx == Abs(b.position.x - other.position.x)
        dy == Abs(b.position.y - other.position.y)
    IN  IF dx > Px(PERCEPTION_RADIUS) \/ dy > Px(PERCEPTION_RADIUS)
        THEN Px(PERCEPTION_RADIUS + 1)
        ELSE LET wrappedDx == IF 2 * dx > Px(innerWidth) THEN Px(innerWidth) - dx ELSE dx
                 wrappedDy == IF 2 * dy > Px(innerHeight) THEN Px(innerHeight) - dy ELSE dy
             IN  Sqrt(wrappedDx * wrappedDx + wrappedDy * wrappedDy)

\* flock's `wrappedPos` for neighbour `other`
wrappedPosOf(b, other) ==
    LET x == IF 2 * Abs(b.position.x - other.position.x) > Px(innerWidth)
             THEN other.position.x +
                  (IF 2 * b.position.x > Px(innerWidth) THEN -Px(innerWidth) ELSE Px(innerWidth))
             ELSE other.position.x
        y == IF 2 * Abs(b.position.y - other.position.y) > Px(innerHeight)
             THEN other.position.y +
                  (IF 2 * b.position.y > Px(innerHeight) THEN -Px(innerHeight) ELSE Px(innerHeight))
             ELSE other.position.y
    IN  Vec(x, y)

\* the body of `if (other !== this && d < PERCEPTION_RADIUS)`: the sums
\* with neighbour `other`, at wrapped distance d, added
addNeighbor(b, other, sums, d) ==
    LET wrappedPos == wrappedPosOf(b, other)
        factor == Quot(Scale * Scale, IF d > Quot(Scale, 10) THEN d ELSE Quot(Scale, 10))
        diff == mult(sub(b.position, wrappedPos), factor)
    IN  [alignment |-> add(sums.alignment, other.velocity),
         cohesion |-> add(sums.cohesion, wrappedPos),
         separation |-> IF d < Px(SEPARATION_RADIUS)
                        THEN add(sums.separation, diff)
                        ELSE sums.separation,
         total |-> sums.total + 1]

\* the loop body once `other` is known to have the colour of `this`
flockSameColor(b, same, other, sums, d) ==
    IF ~same /\ d < Px(PERCEPTION_RADIUS) THEN addNeighbor(b, other, sums, d) ELSE sums

\* mutant: the test on the colour of `other` is missing
flockStep_NoColorTest(b, same, other, sums) ==
    flockSameColor(b, same, other, sums, wrappedDistance(b, other))

\* the body of flock's loop for one element `other` of boids: the sums after
\* it; `same` tells whether other === this
flockStep(b, same, other, sums) ==
    IF other.color # b.color THEN sums
    ELSE flockSameColor(b, same, other, sums, wrappedDistance(b, other))

\* an element of the `boids` argument that is not a Boid.  The argument lists
\* indices into the array of all boids, and 0 is the index of none.
Malformed == 0

\* mutant: an element that is not a Boid is counted as a neighbour
flockElement_CountsMalformed(bs, self, e, sums) ==
    IF e = Malformed THEN [sums EXCEPT !.total = sums.total + 1]
    ELSE flockStep(bs[self], e = self, bs[e], sums)

\* the whole body of flock's loop for the element e of `boids`: an element
\* that is not a Boid is skipped (with a warning)
flockElement(bs, self, e, sums) ==
    IF e = Malformed THEN sums
    ELSE flockStep(bs[self], e = self, bs[e], sums)

\* flock's loop over boids[k..]: bs is the array of all boids, self the index
\* of `this`, list the elements passed as `boids`; sums is the running
\* alignment, cohesion, separation and total
RECURSIVE flockLoop(_, _, _, _, _)
flockLoop(bs, self, list, k, sums) ==
    IF k > Len(list) THEN sums
    ELSE flockLoop(bs, self, list, k + 1, flockElement(bs, self, list[k], sums))

\* the three weighted forces of flock, applied to b
steerForces(b, sums) ==
    LET total == Px(sums.total)
        alignment ==
            mult(limit(sub(setMag(div(sums.alignment, total), maxSpeed),
                           b.velocity), maxForce),
                 Quot(3 * Scale, 10))
        cohesion ==
            mult(limit(sub(div(sums.cohesion, total), b.position), maxForce),
                 Quot(5 * Scale, 10))
        separation ==
            mult(limit(div(sums.separation, total), maxForce), Scale)
    IN  applyForce(applyForce(applyForce(b, alignment), cohesion), separation)

\* mutant: the forces are applied even when no neighbour was counted
steer_Always(b, sums) == steerForces(b, sums)

\* flock after its loop, `if (total > 0) { ... }`: the boid with the three
\* weighted forces applied
steer(b, sums) ==
    IF sums.total > 0 THEN steerForces(b, sums) ELSE b

\* a `boids` argument: an array of elements, or something that is no array
ArrayOf(elems) == [isArray |-> TRUE, elems |-> elems]

NotAnArray == [isArray |-> FALSE, elems |-> << >>]

\* flock, and update through it, throws 'Boids must be an array' exactly
\* when this holds
flockThrows(boidsArg) == ~boidsArg.isArray

\* flock(boids) on bs[self]: the boid with the three forces applied
flock(bs, self, list) ==
    steer(bs[self],
          flockLoop(bs, self, list, 1,
              [alignment |-> Vec(0, 0), cohesion |-> Vec(0, 0),
               separation |-> Vec(0, 0), total |-> 0]))

\* attractTo throws 'Point is required for attraction', and repelFrom
\* 'Point is required for repulsion', exactly when this holds
pointMissing(pointArg) == pointArg = Absent

attractTo(b, point, strength) == applyForce(b, limit(sub(b.position, point), strength))

repelFrom(b, point, strength, radius) ==
    IF dist(b.position, point) < radius
    THEN applyForce(b, mult(sub(b.position, point),
                            Quot((Scale - Quot(dist(b.position, point) * Scale, radius))
                                     * strength, Scale)))
    ELSE b

edges(b) ==
    LET x1 == IF b.position.x < 0 THEN Px(innerWidth) ELSE b.position.x
        x2 == IF x1 > Px(innerWidth) THEN 0 ELSE x1
        y1 == IF b.position.y < 0 THEN Px(innerHeight) ELSE b.position.y
        y2 == IF y1 > Px(innerHeight) THEN 0 ELSE y1
    IN  [b EXCEPT !.position = Vec(x2, y2)]

\* update after the velocity is settled: the position is advanced, the
\* rotation set, the acceleration reset and the edges wrapped
move(b, velocity) ==
    edges([b EXCEPT !.velocity = velocity,
                    !.position = add(b.position, velocity),
                    !.rotation = atan2(velocity.y, velocity.x),
                    !.acceleration = mult(b.acceleration, 0)])

\* mutant: the velocity is clamped before the acceleration is added to it
integrate_LimitFirst(b) == move(b, add(limit(b.velocity, maxSpeed), b.acceleration))

\* update after flock: the boid b with its accumulated acceleration integrated
integrate(b) == move(b, limit(add(b.velocity, b.acceleration), maxSpeed))

\* update(boids) on bs[self]: the updated boid
update(bs, self, list) == integrate(flock(bs, self, list))

----------------------------------------------------------------------------
(* Game *)

\* the interaction radius 150, squared
FlowRadiusSq == 22500

\* the force applyCircularFlow applies to b, (0,0) standing for none
circularFlowForce(b, mouse) ==
    LET dx == mouse.x - b.position.x
        dy == mouse.y - b.position.y
        distanceSquared == dx * dx + dy * dy
    IN  IF distanceSquared < FlowRadiusSq * Scale * Scale
        THEN LET toCursor == Vec(dx, dy)
                 angle == angleBetween(toCursor, b.velocity)
                 tangent == normalize(Vec(-dy, dx))
                 turned == IF angle < 0 THEN mult(tangent, -Scale) ELSE tangent
                 distance == Sqrt(distanceSquared)
                 strength == Quot(ExpNeg(Quot(distance, 100)) * 3, 10)
             IN  mult(turned, strength)
        ELSE Vec(0, 0)

\* whether applyCircularFlow / applyDirectionalFlow calls applyForce on b
flowApplies(b, mouse) ==
    LET dx == mouse.x - b.position.x
        dy == mouse.y - b.position.y
    IN  dx * dx + dy * dy < FlowRadiusSq * Scale * Scale

directionalFlowForce(b, mouse) ==
    LET dx == mouse.x - b.position.x
        dy == mouse.y - b.position.y
        distanceSquared == dx * dx + dy * dy
    IN  IF distanceSquared < FlowRadiusSq * Scale * Scale
        THEN LET toCursor == Vec(dx, dy)
                 angle == angleBetween(toCursor, b.velocity)
                 distance == Sqrt(distanceSquared)
                 strength == Quot(ExpNeg(Quot(distance, 50)) * 5, 10)
             IN  IF Abs(angle) > HalfPi
                 THEN mult(normalize(b.velocity), strength)
                 ELSE mult(normalize(toCursor), strength)
        ELSE Vec(0, 0)

\* mutant: the toggle selects the other policy
applyFlow_Inverted(b, mouse, circular) ==
    IF flowApplies(b, mouse)
    THEN applyForce(b, IF circular THEN directionalFlowForce(b, mouse)
                       ELSE circularFlowForce(b, mouse))
    ELSE b

\* applyCircularFlow(boid) or applyDirectionalFlow(boid), by the toggle
applyFlow(b, mouse, circular) ==
    IF flowApplies(b, mouse)
    THEN applyForce(b, IF circular THEN circularFlowForce(b, mouse)
                       ELSE directionalFlowForce(b, mouse))
    ELSE b

\* the indices of the boids of a colour group, in array order: `colorBoids`
colorBoidsOf(bs, color) ==
    LET pick(i) == bs[i].color = color
    IN  SelectSeq([i \in 1..Len(bs) |-> i], pick)

\* the body of Game.update's inner forEach for boid i: update, then the flow
tickBoid(bs, i, mouse, circular) ==
    LET updated == update(bs, i, colorBoidsOf(bs, bs[i].color))
    IN  applyFlow(updated, mouse, circular)

\* mutant: the boid's velocity vector is shared with the next boid of the array
turn_SharedVelocity(bs, i, mouse, circular) ==
    [k \in 1..Len(bs) |->
        IF k = i THEN tickBoid(bs, i, mouse, circular)
        ELSE IF k = i + 1
        THEN [bs[k] EXCEPT !.velocity = tickBoid(bs, i, mouse, circular).velocity]
        ELSE bs[k]]

\* the array of boids after boid i's turn in Game.update: update and the
\* flow write to the fields of boid i, and to nothing else
turn(bs, i, mouse, circular) == [bs EXCEPT ![i] = tickBoid(bs, i, mouse, circular)]

\* Game.update's loops from boid i on: boids are updated in place, one after
\* the other, group after group.  The result lists the array as it is when
\* each boid's turn comes and, last, as the loops leave it.
RECURSIVE tickLoop(_, _, _, _)
tickLoop(bs, i, mouse, circular) ==
    IF i > Len(bs) THEN <<bs>>
    ELSE <<bs>> \o tickLoop(turn(bs, i, mouse, circular), i + 1, mouse, circular)

\* the id of the PuzzleTile drawn for the empty slot
EmptyTileId == 8

\* handleTileClick's `findTilePosition(tile.id) || [0, 0]`
clickedPosition(g, tileId) ==
    IF findTilePosition(g, tileId) = NoPos THEN <<0, 0>> ELSE findTilePosition(g, tileId)

\* handleTileClick once [tileRow, tileCol] is known: the grid it leaves and
\* the lines it writes to the console
clickAt(g, tileRow, tileCol) ==
    IF canMove(g, tileRow, tileCol)
    THEN [grid |-> moveTile(g, tileRow, tileCol),
          logged |-> IF isSolved(moveTile(g, tileRow, tileCol))
                     THEN <<"Puzzle solved!">> ELSE << >>]
    ELSE [grid |-> g, logged |-> << >>]

\* handleTileClick(tile) for the tile of the given id
handleTileClick(g, tileId) ==
    clickAt(g, clickedPosition(g, tileId)[1], clickedPosition(g, tileId)[2])

\* the tiles as the Game constructor places them: tile id at its correctRow
\* and correctCol of tileData
NewTiles == [id \in 0..EmptyTileId |-> indexToPos(id)]

\* handleTileClick's two animateToPosition calls, made when canMove holds:
\* the empty tile goes to the clicked cell, then the clicked tile to the
\* cell the empty slot had
tilesAfterMove(g, ts, tileId, tileRow, tileCol) ==
    [[ts EXCEPT ![EmptyTileId] = <<tileRow, tileCol>>] EXCEPT ![tileId] = findEmptySlot(g)]

\* the tile targets handleTileClick(tile) leaves for the tile of the given id
tilesAfterClick(g, ts, tileId) ==
    IF canMove(g, clickedPosition(g, tileId)[1], clickedPosition(g, tileId)[2])
    THEN tilesAfterMove(g, ts, tileId,
                        clickedPosition(g, tileId)[1], clickedPosition(g, tileId)[2])
    ELSE ts

\* the tile targets handleShuffle leaves, g being the grid after the
\* shuffle: every tile whose id is in a cell goes to that cell, then the
\* empty tile to the empty slot
tilesAfterShuffle(g, ts) ==
    [id \in 0..EmptyTileId |->
        IF id = EmptyTileId THEN findEmptySlot(g)
        ELSE IF findTilePosition(g, id) # NoPos THEN findTilePosition(g, id)
        ELSE ts[id]]

\* handleShuffle: the grids this.puzzleState.shuffle() may leave; nothing is
\* written to the console
handleShuffle(g) ==
    { [grid |-> gridAfter(g, log), logged |-> << >>] : log \in shuffle(g, DefaultTimes) }

----------------------------------------------------------------------------
(* The puzzle as a state machine: calls on one PuzzleState. *)

\* the caller's grid before any getGrid() call
NoCopy == [held |-> FALSE]

\* no Vector is used on its own, no method call is recorded, the tiles are
\* shown where the Game constructor puts them and no grid copy is held
NoCalls ==
    /\ vec = Vec(0, 0)
    /\ call = [op |-> "none"]
    /\ tiles = NewTiles
    /\ copy = NoCopy

\* no simulation runs beside the puzzle
NoSim ==
    /\ boids = << >>
    /\ mousePosition = Vec(0, 0)
    /\ isCircularFlow = FALSE
    /\ tickLog = << >>
    /\ ticks = 0

Init ==
    /\ grid = NewGrid
    /\ prevGrid = NewGrid
    /\ lastCall = [op |-> "new", args |-> << >>]
    /\ shuffleLog = << >>
    /\ ops = 0
    /\ NoSim
    /\ NoCalls

MoveTile ==
    /\ ops < MaxOps
    /\ \E tileRow \in 0..(rows - 1), tileCol \in 0..(cols - 1) :
          /\ grid' = moveTile(grid, tileRow, tileCol)
          /\ lastCall' = [op |-> "moveTile", args |-> <<tileRow, tileCol>>]
    /\ prevGrid' = grid
    /\ shuffleLog' = << >>
    /\ ops' = ops + 1
    /\ UNCHANGED simVars
    /\ UNCHANGED callVars
    /\ UNCHANGED viewVars

Shuffle ==
    /\ ops < MaxOps
    /\ \E times \in 0..MaxTimes :
          \E log \in shuffle(grid, times) :
              /\ grid' = gridAfter(grid, log)
              /\ shuffleLog' = log
              /\ lastCall' = [op |-> "shuffle", args |-> <<times>>]
    /\ prevGrid' = grid
    /\ ops' = ops + 1
    /\ UNCHANGED simVars
    /\ UNCHANGED callVars
    /\ UNCHANGED viewVars

Next == MoveTile \/ Shuffle

Spec == Init /\ [][Next]_vars

----------------------------------------------------------------------------
(* A caller that reads a PuzzleState and writes to the array getGrid gave. *)

\* the values a caller writes into a cell of the array it was given
WrittenValues == {Null, 0}

\* the row a caller puts in place of a row of the array it was given
WrittenRow == Arr3(Null, Null, Null)

\* the tile ids a caller looks up
LookedUp == {Null, 0, 5}

\* what every read leaves alone, and the record of the call
ReadFrame(op, args, result) ==
    /\ ops < MaxOps
    /\ call' = [op |-> op, args |-> args, result |-> result]
    /\ lastCall' = [op |-> op, args |-> args]
    /\ grid' = grid
    /\ prevGrid' = grid
    /\ shuffleLog' = << >>
    /\ ops' = ops + 1
    /\ vec' = vec
    /\ tiles' = tiles
    /\ UNCHANGED simVars

GetGrid ==
    /\ copy' = getGrid(grid)
    /\ ReadFrame("getGrid", << >>, getGrid(grid).cells)

GetFlatGrid ==
    /\ copy' = copy
    /\ ReadFrame("getFlatGrid", << >>, getFlatGrid(grid))

FindTilePosition ==
    /\ copy' = copy
    /\ \E tileId \in LookedUp :
          ReadFrame("findTilePosition", <<tileId>>, findTilePosition(grid, tileId))

FindEmptySlot ==
    /\ copy' = copy
    /\ ~findEmptySlotThrows(grid)
    /\ ReadFrame("findEmptySlot", << >>, findEmptySlot(grid))

CanMove ==
    /\ copy' = copy
    /\ ~findEmptySlotThrows(grid)
    /\ \E tileRow \in 0..(rows - 1), tileCol \in 0..(cols - 1) :
          ReadFrame("canMove", <<tileRow, tileCol>>, canMove(grid, tileRow, tileCol))

IsSolved ==
    /\ copy' = copy
    /\ ReadFrame("isSolved", << >>, isSolved(grid))

\* what every write of the caller leaves alone
WriteFrame ==
    /\ ops < MaxOps
    /\ copy.held
    /\ prevGrid' = grid
    /\ shuffleLog' = << >>
    /\ ops' = ops + 1
    /\ vec' = vec
    /\ tiles' = tiles
    /\ UNCHANGED simVars

WriteCell ==
    /\ WriteFrame
    /\ \E row \in 0..(rows - 1), col \in 0..(cols - 1), value \in WrittenValues :
          \E done \in {writeCell(grid, copy, row, col, value)} :
              /\ grid' = done.grid
              /\ copy' = done.copy
              /\ call' = [op |-> "write cell", args |-> <<row, col, value>>,
                          result |-> copy.cells]
              /\ lastCall' = [op |-> "write cell", args |-> <<row, col, value>>]

WriteRow ==
    /\ WriteFrame
    /\ \E row \in 0..(rows - 1) :
          \E done \in {writeRow(grid, copy, row, WrittenRow)} :
              /\ grid' = done.grid
              /\ copy' = done.copy
              /\ call' = [op |-> "write row", args |-> <<row>>, result |-> copy.cells]
              /\ lastCall' = [op |-> "write row", args |-> <<row>>]

\* moveTile on a PuzzleState whose grid a caller may hold a copy of
MoveTileHeld ==
    /\ ops < MaxOps
    /\ ~findEmptySlotThrows(grid)
    /\ \E tileRow \in 0..(rows - 1), tileCol \in 0..(cols - 1) :
          /\ grid' = moveTile(grid, tileRow, tileCol)
          /\ copy' = seenThrough(copy, moveTile(grid, tileRow, tileCol))
          /\ call' = [op |-> "moveTile", args |-> <<tileRow, tileCol>>,
                      result |-> copy]
          /\ lastCall' = [op |-> "moveTile", args |-> <<tileRow, tileCol>>]
    /\ prevGrid' = grid
    /\ shuffleLog' = << >>
    /\ ops' = ops + 1
    /\ vec' = vec
    /\ tiles' = tiles
    /\ UNCHANGED simVars

NextCopy ==
    \/ GetGrid
    \/ GetFlatGrid
    \/ FindTilePosition
    \/ FindEmptySlot
    \/ CanMove
    \/ IsSolved
    \/ WriteCell
    \/ WriteRow
    \/ MoveTileHeld

SpecCopy == Init /\ [][NextCopy]_vars

----------------------------------------------------------------------------
(* Calls of canMove and moveTile with arbitrary integer coordinates. *)

\* the coordinates tried: the grid's own and one step outside it
Coordinates == (0 - 1)..rows

MoveTileAnywhere ==
    /\ ops < MaxOps
    /\ \E tileRow \in Coordinates, tileCol \in Coordinates :
          \E done \in {moveTileAnywhere(grid, tileRow, tileCol)} :
              /\ grid' = done.grid
              /\ call' = [op |-> "moveTile", args |-> <<tileRow, tileCol>>,
                          canMove |-> canMoveAnywhere(grid, tileRow, tileCol),
                          threw |-> done.threw]
              /\ lastCall' = [op |-> "moveTile", args |-> <<tileRow, tileCol>>]
    /\ prevGrid' = grid
    /\ shuffleLog' = << >>
    /\ ops' = ops + 1
    /\ vec' = vec
    /\ UNCHANGED viewVars
    /\ UNCHANGED simVars

NextAnywhere == MoveTileAnywhere

SpecAnywhere == Init /\ [][NextAnywhere]_vars

----------------------------------------------------------------------------
(* The Game's puzzle as a state machine: tile clicks and the shuffle button. *)

InitGame ==
    /\ grid = NewGrid
    /\ prevGrid = NewGrid
    /\ lastCall = [op |-> "new", args |-> << >>]
    /\ shuffleLog = << >>
    /\ ops = 0
    /\ NoSim
    /\ NoCalls

\* the 'tileclick' listener, for the tile of any id
HandleTileClick ==
    /\ ops < MaxOps
    /\ \E tileId \in 0..EmptyTileId :
          /\ grid' = handleTileClick(grid, tileId).grid
          /\ call' = [op |-> "handleTileClick", args |-> <<tileId>>, before |-> grid,
                      logged |-> handleTileClick(grid, tileId).logged]
          /\ lastCall' = [op |-> "handleTileClick", args |-> <<tileId>>]
          /\ tiles' = tilesAfterClick(grid, tiles, tileId)
    /\ prevGrid' = grid
    /\ shuffleLog' = << >>
    /\ ops' = ops + 1
    /\ vec' = vec
    /\ copy' = copy
    /\ UNCHANGED simVars

\* the shuffle button's onclick
HandleShuffle ==
    /\ ops < MaxOps
    /\ \E done \in handleShuffle(grid) :
          /\ grid' = done.grid
          /\ call' = [op |-> "handleShuffle", args |-> << >>, before |-> grid,
                      logged |-> done.logged]
          /\ tiles' = tilesAfterShuffle(done.grid, tiles)
    /\ lastCall' = [op |-> "handleShuffle", args |-> << >>]
    /\ prevGrid' = grid
    /\ shuffleLog' = << >>
    /\ ops' = ops + 1
    /\ vec' = vec
    /\ copy' = copy
    /\ UNCHANGED simVars

NextGame == HandleTileClick \/ HandleShuffle

SpecGame == InitGame /\ [][NextGame]_vars

----------------------------------------------------------------------------
(* The simulation as a state machine: the Game's ticks and input events. *)

\* where the constructor's Math.random() calls may put the boids, in pixels
StartPositions ==
    << <<100, 100>>, <<120, 110>>, <<100, 195>>, <<290, 20>>, <<150, 40>>, <<10, 5>>,
       <<1, 50>>, <<299, 50>> >>

\* where mousemove events put the pointer, in pixels
PointerPositions == { <<110, 105>>, <<290, 190>> }

\* the Game constructor's boids: boid j (0-based) belongs to group
\* j \div BoidsPerColor; its position and heading are drawn by the two seeds
InitSim ==
    /\ grid = NewGrid
    /\ prevGrid = NewGrid
    /\ lastCall = [op |-> "new", args |-> << >>]
    /\ shuffleLog = << >>
    /\ ops = 0
    /\ \E posSeed \in 0..(Len(StartPositions) - 1), dirSeed \in 0..7 :
          boids = [i \in 1..(NumColors * BoidsPerColor) |->
                      LET j == i - 1
                          at == StartPositions[((posSeed + j) % Len(StartPositions)) + 1]
                      IN  NewBoid(Px(at[1]), Px(at[2]), j \div BoidsPerColor,
                                  (dirSeed + 3 * j) % 8)]
    /\ mousePosition = Vec(0, 0)
    /\ isCircularFlow = FALSE
    /\ tickLog = << >>
    /\ ticks = 0
    /\ NoCalls

\* Game.update, one run of it
Tick ==
    /\ ticks < MaxTicks
    /\ \E run \in {tickLoop(boids, 1, mousePosition, isCircularFlow)} :
           /\ boids' = run[Len(run)]
           /\ tickLog' = [i \in 1..Len(boids) |->
                  [seen |-> run[i],
                   mouse |-> mousePosition,
                   circular |-> isCircularFlow,
                   flocked |-> flock(run[i], i, colorBoidsOf(run[i], run[i][i].color)),
                   updated |-> update(run[i], i, colorBoidsOf(run[i], run[i][i].color)),
                   after |-> run[i + 1][i]]]
    /\ ticks' = ticks + 1
    /\ UNCHANGED <<mousePosition, isCircularFlow>>
    /\ UNCHANGED puzzleVars
    /\ UNCHANGED callVars
    /\ UNCHANGED viewVars

\* the mousemove listener
MouseMove ==
    /\ \E at \in PointerPositions : mousePosition' = Vec(Px(at[1]), Px(at[2]))
    /\ UNCHANGED <<boids, isCircularFlow, tickLog, ticks>>
    /\ UNCHANGED puzzleVars
    /\ UNCHANGED callVars
    /\ UNCHANGED viewVars

\* the keydown listener, for the space bar
KeyDown ==
    /\ isCircularFlow' = ~isCircularFlow
    /\ UNCHANGED <<boids, mousePosition, tickLog, ticks>>
    /\ UNCHANGED puzzleVars
    /\ UNCHANGED callVars
    /\ UNCHANGED viewVars

NextSim == Tick \/ MouseMove \/ KeyDown

SpecSim == InitSim /\ [][NextSim]_vars

----------------------------------------------------------------------------
(* A Boid as a state machine: calls of its public methods on boids[1], the *)
(* other boids being what the calls are given as neighbours.               *)

\* a Boid with the given fields: the constructor's boid, moved and steered
BoidWith(x, y, color, vx, vy) ==
    [NewBoid(Px(x), Px(y), color, 0) EXCEPT !.velocity = Vec(vx, vy)]

\* the boids the calls start from
StartLayouts ==
    { << BoidWith(0, 0, 0, Scale, 0), BoidWith(200, 150, 0, 0, -maxSpeed),
         BoidWith(20, 10, 1, maxSpeed, 0) >>,
      << BoidWith(100, 100, 0, maxSpeed, 0), BoidWith(120, 110, 0, 0, maxSpeed),
         BoidWith(110, 100, 1, -maxSpeed, 0) >>,
      << BoidWith(10, 190, 0, -maxSpeed, 0), BoidWith(30, 60, 0, 2 * Scale, 2 * Scale),
         BoidWith(40, 180, 0, 0, -Scale) >>,
      << BoidWith(299, 100, 0, 2 * Scale, 2 * Scale), BoidWith(1, 100, 0, -maxSpeed, 0),
         BoidWith(280, 90, 1, 0, Scale) >> }

\* the forces given to applyForce: (0.1, 0) and (-0.05, 0.2)
ForceArgs == { Given(Vec(Quot(Scale, 10), 0)), Given(Vec(-Quot(Scale, 20), Quot(Scale, 5))),
               Absent }

\* the points given to attractTo and repelFrom
PointArgs == { Given(Vec(Px(0), Px(0))), Given(Vec(Px(150), Px(100))),
               Given(Vec(Px(100), Px(100))), Absent }

\* the strengths given to attractTo: its default 0.05, and 1
StrengthArgs == { Quot(Scale, 20), Scale }

\* the `boids` arguments given to flock and update
NeighborArgs ==
    { NotAnArray, ArrayOf(<< >>), ArrayOf(<<1, 2, 3>>),
      ArrayOf(<<Malformed, 2, Malformed, 3>>), ArrayOf(<<2, Malformed>>) }

InitBoid ==
    /\ grid = NewGrid
    /\ prevGrid = NewGrid
    /\ lastCall = [op |-> "new", args |-> << >>]
    /\ shuffleLog = << >>
    /\ ops = 0
    /\ boids \in StartLayouts
    /\ mousePosition = Vec(0, 0)
    /\ isCircularFlow = FALSE
    /\ tickLog = << >>
    /\ ticks = 0
    /\ NoCalls

\* what every call on the Boid leaves alone
BoidFrame ==
    /\ ops' = ops + 1
    /\ UNCHANGED <<grid, prevGrid, lastCall, shuffleLog>>
    /\ UNCHANGED <<mousePosition, isCircularFlow, tickLog, ticks, vec>>
    /\ UNCHANGED viewVars

\* boids[1].applyForce(force)
ApplyForce ==
    /\ ops < MaxCalls
    /\ \E forceArg \in ForceArgs :
          /\ boids' = IF applyForceThrows(forceArg) THEN boids
                      ELSE [boids EXCEPT ![1] = applyForce(boids[1], forceArg[1])]
          /\ call' = [op |-> "applyForce", args |-> <<forceArg>>,
                      threw |-> applyForceThrows(forceArg), before |-> boids]
    /\ BoidFrame

\* boids[1].attractTo(point, strength)
AttractTo ==
    /\ ops < MaxCalls
    /\ \E pointArg \in PointArgs, strength \in StrengthArgs :
          /\ boids' = IF pointMissing(pointArg) THEN boids
                      ELSE [boids EXCEPT ![1] = attractTo(boids[1], pointArg[1], strength)]
          /\ call' = [op |-> "attractTo", args |-> <<pointArg, strength>>,
                      threw |-> pointMissing(pointArg), before |-> boids]
    /\ BoidFrame

\* boids[1].repelFrom(point), with the default strength 0.1 and radius 100
RepelFrom ==
    /\ ops < MaxCalls
    /\ \E pointArg \in PointArgs :
          /\ boids' = IF pointMissing(pointArg) THEN boids
                      ELSE [boids EXCEPT ![1] =
                               repelFrom(boids[1], pointArg[1], Quot(Scale, 10), Px(100))]
          /\ call' = [op |-> "repelFrom", args |-> <<pointArg>>,
                      threw |-> pointMissing(pointArg), before |-> boids]
    /\ BoidFrame

\* boids[1].flock(boids)
Flock ==
    /\ ops < MaxCalls
    /\ \E boidsArg \in NeighborArgs :
          /\ boids' = IF flockThrows(boidsArg) THEN boids
                      ELSE [boids EXCEPT ![1] = flock(boids, 1, boidsArg.elems)]
          /\ call' = [op |-> "flock", args |-> <<boidsArg>>,
                      threw |-> flockThrows(boidsArg), before |-> boids]
    /\ BoidFrame

\* boids[1].update(boids)
Update ==
    /\ ops < MaxCalls
    /\ \E boidsArg \in NeighborArgs :
          /\ boids' = IF flockThrows(boidsArg) THEN boids
                      ELSE [boids EXCEPT ![1] = update(boids, 1, boidsArg.elems)]
          /\ call' = [op |-> "update", args |-> <<boidsArg>>,
                      threw |-> flockThrows(boidsArg), before |-> boids]
    /\ BoidFrame

NextBoid == ApplyForce \/ AttractTo \/ RepelFrom \/ Flock \/ Update

SpecBoid == InitBoid /\ [][NextBoid]_vars

----------------------------------------------------------------------------
(* A Vector as a state machine: calls of its methods on one object, vec.   *)

\* the vectors the calls start from and are given
VectorArgs == { Vec(0, 0), Vec(Scale, 0), Vec(-3 * Scale, 4 * Scale), Vec(0, -2 * Scale) }

\* the numbers the calls are given
NumberArgs == { 0, Scale, 3 * Scale }

InitVector ==
    /\ grid = NewGrid
    /\ prevGrid = NewGrid
    /\ lastCall = [op |-> "new", args |-> << >>]
    /\ shuffleLog = << >>
    /\ ops = 0
    /\ NoSim
    /\ vec \in VectorArgs
    /\ call = [op |-> "none"]
    /\ tiles = NewTiles
    /\ copy = NoCopy

\* what every call on the Vector leaves alone
VectorFrame ==
    /\ ops' = ops + 1
    /\ UNCHANGED <<grid, prevGrid, lastCall, shuffleLog>>
    /\ UNCHANGED simVars
    /\ UNCHANGED viewVars

\* vec.add(v)
Add ==
    /\ ops < MaxCalls
    /\ \E v \in VectorArgs :
          /\ vec' = add(vec, v)
          /\ call' = [op |-> "add", args |-> <<v>>, before |-> vec, returned |-> add(vec, v)]
    /\ VectorFrame

\* vec.sub(v)
Sub ==
    /\ ops < MaxCalls
    /\ \E v \in VectorArgs :
          /\ vec' = sub(vec, v)
          /\ call' = [op |-> "sub", args |-> <<v>>, before |-> vec, returned |-> sub(vec, v)]
    /\ VectorFrame

\* vec.mult(n)
Mult ==
    /\ ops < MaxCalls
    /\ \E n \in NumberArgs :
          /\ vec' = mult(vec, n)
          /\ call' = [op |-> "mult", args |-> <<n>>, before |-> vec, returned |-> mult(vec, n)]
    /\ VectorFrame

\* vec.div(n)
Div ==
    /\ ops < MaxCalls
    /\ \E n \in NumberArgs :
          /\ vec' = div(vec, n)
          /\ call' = [op |-> "div", args |-> <<n>>, before |-> vec, returned |-> div(vec, n)]
    /\ VectorFrame

\* vec.setMag(n)
SetMag ==
    /\ ops < MaxCalls
    /\ \E n \in NumberArgs :
          /\ vec' = setMag(vec, n)
          /\ call' = [op |-> "setMag", args |-> <<n>>, before |-> vec,
                      returned |-> setMag(vec, n)]
    /\ VectorFrame

\* vec.normalize()
Normalize ==
    /\ ops < MaxCalls
    /\ vec' = normalize(vec)
    /\ call' = [op |-> "normalize", args |-> << >>, before |-> vec,
                returned |-> normalize(vec)]
    /\ VectorFrame

\* vec.limit(max)
Limit ==
    /\ ops < MaxCalls
    /\ \E max \in NumberArgs :
          /\ vec' = limit(vec, max)
          /\ call' = [op |-> "limit", args |-> <<max>>, before |-> vec,
                      returned |-> limit(vec, max)]
    /\ VectorFrame

\* vec.angleBetween(other): vec is only read
AngleBetween ==
    /\ ops < MaxCalls
    /\ \E other \in VectorArgs :
          call' = [op |-> "angleBetween", args |-> <<other>>, before |-> vec,
                   returned |-> angleBetween(vec, other)]
    /\ vec' = vec
    /\ VectorFrame

NextVector ==
    Add \/ Sub \/ Mult \/ Div \/ SetMag \/ Normalize \/ Limit \/ AngleBetween

SpecVector == InitVector /\ [][NextVector]_vars

----------------------------------------------------------------------------
(* Claims about the puzzle. *)

Cells == (0..(rows - 1)) \X (0..(cols - 1))

\* the cells of g holding v
CellsHolding(g, v) == {p \in Cells : g[p[1]][p[2]] = v}

\* the last call was moveTile, on a cell canMove accepted / rejected
LegalMoveDone ==
    /\ lastCall.op = "moveTile"
    /\ canMove(prevGrid, lastCall.args[1], lastCall.args[2])

RejectedMoveDone ==
    /\ lastCall.op = "moveTile"
    /\ ~canMove(prevGrid, lastCall.args[1], lastCall.args[2])

\* C1: the grid is 3x3 and holds exactly one empty cell and each tile id
\* 0..7 exactly once, in every state reached by moveTile and shuffle calls.
C1_TileMultiset ==
    /\ DOMAIN grid = 0..(rows - 1)
    /\ \A r \in 0..(rows - 1) : DOMAIN grid[r] = 0..(cols - 1)
    /\ Cardinality(CellsHolding(grid, Null)) = 1
    /\ \A id \in 0..(rows * cols - 2) : Cardinality(CellsHolding(grid, id)) = 1

\* C1 witness: a shuffle and a legal move have both rearranged the grid.
C1_Witness ==
    /\ lastCall.op = "shuffle" /\ Len(shuffleLog) >= 2
    /\ grid # prevGrid /\ prevGrid # NewGrid

\* C2: canMove(row, col) is true exactly for the cells next to the empty
\* slot in its row or its column; false for the empty cell, for diagonal
\* cells and for cells farther away.
C2_CanMoveIffAdjacent ==
    \A e \in CellsHolding(grid, Null) : \A p \in Cells :
        canMove(grid, p[1], p[2]) <=>
            \/ p[1] = e[1] /\ (p[2] = e[2] + 1 \/ p[2] = e[2] - 1)
            \/ p[2] = e[2] /\ (p[1] = e[1] + 1 \/ p[1] = e[1] - 1)

\* C2 witness: the empty slot is in the middle, so that four cells can move
\* and the four diagonal ones and the slot itself cannot.
C2_Witness ==
    /\ grid[1][1] = Null
    /\ canMove(grid, 0, 1) /\ canMove(grid, 2, 1)
    /\ ~canMove(grid, 0, 0) /\ ~canMove(grid, 1, 1)

\* C3: moveTile on a cell for which canMove is false leaves the grid, and
\* with it the empty slot, unchanged.
C3_RejectedMoveIsNoOp ==
    RejectedMoveDone =>
        /\ grid = prevGrid
        /\ findEmptySlot(grid) = findEmptySlot(prevGrid)

\* C3 witness: a rejected moveTile on a tile-holding cell of a scrambled grid.
C3_Witness ==
    /\ RejectedMoveDone
    /\ prevGrid # NewGrid
    /\ prevGrid[lastCall.args[1]][lastCall.args[2]] # Null

\* C4: a legal moveTile(row, col) puts the tile of (row, col) into the
\* former empty slot, empties (row, col) and leaves the other seven cells;
\* from the solved grid moveTile(1,2) gives [[0,1,2],[3,4,null],[6,7,5]].
C4_LegalMoveSwaps ==
    LegalMoveDone =>
        LET row == lastCall.args[1]
            col == lastCall.args[2]
        IN  /\ \A e \in CellsHolding(prevGrid, Null) :
                  /\ grid[e[1]][e[2]] = prevGrid[row][col]
                  /\ \A p \in Cells \ {e, <<row, col>>} :
                        grid[p[1]][p[2]] = prevGrid[p[1]][p[2]]
            /\ prevGrid[row][col] # Null
            /\ grid[row][col] = Null
            /\ (prevGrid = NewGrid /\ row = 1 /\ col = 2) =>
                  grid = Arr3(Arr3(0, 1, 2), Arr3(3, 4, Null), Arr3(6, 7, 5))

\* C4 witness: moveTile(1,2) was called on the solved grid.
C4_Witness ==
    /\ LegalMoveDone
    /\ prevGrid = NewGrid /\ lastCall.args = <<1, 2>>

\* C5: after a legal moveTile, moveTile on the former empty slot is legal
\* and restores the prior grid.
C5_MoveReversible ==
    LegalMoveDone =>
        \A e \in CellsHolding(prevGrid, Null) :
            /\ canMove(grid, e[1], e[2])
            /\ moveTile(grid, e[1], e[2]) = prevGrid

\* C5 witness: a legal move made from a scrambled grid.
C5_Witness ==
    /\ LegalMoveDone
    /\ prevGrid # NewGrid /\ grid # NewGrid

\* C6: isSolved() is true exactly on [[0,1,2],[3,4,5],[6,7,null]]: true on
\* the constructed state, false after any single legal move from it.
C6_IsSolvedIffSolvedGrid ==
    /\ isSolved(grid) <=> grid = Arr3(Arr3(0, 1, 2), Arr3(3, 4, 5), Arr3(6, 7, Null))
    /\ lastCall.op = "new" => isSolved(grid)
    /\ (LegalMoveDone /\ isSolved(prevGrid)) => ~isSolved(grid)

\* C6 witness: the puzzle was scrambled and has been brought back to the
\* solved grid by a move.
C6_Witness ==
    /\ LegalMoveDone
    /\ isSolved(grid) /\ ~isSolved(prevGrid)

\* the tile ids in row-major order, the empty cell left out (1-based)
TilesInOrder(g) ==
    LET cellsWithTile == {k \in 0..(rows * cols - 1) : g[k \div cols][k % cols] # Null}
        nth(n) == CHOOSE k \in cellsWithTile :
                      Cardinality({j \in cellsWithTile : j < k}) = n - 1
    IN  [n \in 1..Cardinality(cellsWithTile) |-> g[nth(n) \div cols][nth(n) % cols]]

\* the number of pairs of tiles that stand in the wrong order
Inversions(g) ==
    LET t == TilesInOrder(g)
    IN  Cardinality({p \in (DOMAIN t) \X (DOMAIN t) : p[1] < p[2] /\ t[p[1]] > t[p[2]]})

\* C7: when shuffle(n) has returned, the inversion count of the tiles read
\* in row-major order is even.
C7_ShuffleLeavesSolvable ==
    lastCall.op = "shuffle" => Inversions(grid) % 2 = 0

\* C7 witness: a shuffle of at least two moves, started from a scrambled
\* grid, has left a grid with inversions.
C7_Witness ==
    /\ lastCall.op = "shuffle" /\ Len(shuffleLog) >= 2
    /\ prevGrid # NewGrid
    /\ Inversions(grid) > 0

\* C8: every move shuffle performs is available: no iteration is skipped,
\* the chosen cell is inside the grid, holds a tile and is next to the empty
\* slot, moveTile accepts it, and the iteration changes the grid by exactly
\* that swap; the loop makes `times` such moves.
C8_ShuffleMovesAvailable ==
    lastCall.op = "shuffle" =>
        /\ Cardinality({i \in DOMAIN shuffleLog : ~shuffleLog[i].fixup}) = lastCall.args[1]
        /\ \A i \in DOMAIN shuffleLog :
              LET a == shuffleLog[i]
              IN  /\ ~a.skipped
                  /\ a.target \in Cells
                  /\ a.before[a.target[1]][a.target[2]] # Null
                  /\ \E e \in CellsHolding(a.before, Null) :
                        /\ Abs(a.target[1] - e[1]) + Abs(a.target[2] - e[2]) = 1
                        /\ a.after[e[1]][e[2]] = a.before[a.target[1]][a.target[2]]
                        /\ a.after[a.target[1]][a.target[2]] = Null
                        /\ \A p \in Cells \ {e, a.target} :
                              a.after[p[1]][p[2]] = a.before[p[1]][p[2]]
                  /\ a.accepted
                  /\ a.before = (IF i = 1 THEN prevGrid ELSE shuffleLog[i - 1].after)

\* C8 witness: a shuffle of MaxTimes iterations from a scrambled grid, the
\* second of which does not undo the first.
C8_Witness ==
    /\ lastCall.op = "shuffle" /\ lastCall.args[1] = MaxTimes
    /\ Len(shuffleLog) = MaxTimes
    /\ prevGrid # NewGrid
    /\ shuffleLog[2].after # shuffleLog[1].before

\* C18: findEmptySlot does not throw 'Empty slot not found' in any state
\* reached from the constructed grid by moveTile and shuffle calls, nor in
\* any grid a shuffle passes through: it returns the one cell holding null.
C18_EmptySlotFound ==
    /\ ~findEmptySlotThrows(grid)
    /\ CellsHolding(grid, Null) = {findEmptySlot(grid)}
    /\ \A i \in DOMAIN shuffleLog :
          /\ ~findEmptySlotThrows(shuffleLog[i].before)
          /\ ~findEmptySlotThrows(shuffleLog[i].after)
          /\ CellsHolding(shuffleLog[i].after, Null) = {findEmptySlot(shuffleLog[i].after)}

\* C18 witness: after moves and a shuffle the empty slot is found in the top
\* row, away from where the constructor put it.
C18_Witness ==
    /\ ops = MaxOps
    /\ lastCall.op = "shuffle" /\ Len(shuffleLog) >= 1
    /\ findEmptySlot(grid)[1] = 0
    /\ grid[0][findEmptySlot(grid)[2]] = Null

\* the console line that notifies of the solved puzzle was written by the
\* last handler
SolvedNotified == \E k \in DOMAIN call.logged : call.logged[k] = "Puzzle solved!"

\* C20: when a tile click or a shuffle takes the puzzle from a grid that is
\* not solved to one that is, the solved notification is emitted by that
\* handler; and no handler emits it while the grid is not solved.
C20_SolvedNotified ==
    call.op \in {"handleTileClick", "handleShuffle"} =>
        /\ (~isSolved(call.before) /\ isSolved(grid)) => SolvedNotified
        /\ SolvedNotified => isSolved(grid)

\* the Manhattan distance between the empty slots of two grids
SlotDistance(g1, g2) ==
    LET e1 == CHOOSE p \in Cells : g1[p[1]][p[2]] = Null
        e2 == CHOOSE p \in Cells : g2[p[1]][p[2]] = Null
    IN  Abs(e1[1] - e2[1]) + Abs(e1[2] - e2[2])

\* C27: the inversion count is even in every state reached from the
\* constructed grid and in every grid a shuffle passes through, so shuffle
\* never takes its solvability correction: shuffle(n) makes exactly n moves,
\* shuffle(0) leaves the grid as it was, and the empty slot ends at a
\* Manhattan distance from its start that has the parity of n.
C27_CorrectionNeverTaken ==
    /\ Inversions(grid) % 2 = 0
    /\ Inversions(prevGrid) % 2 = 0
    /\ lastCall.op = "shuffle" =>
          /\ \A i \in DOMAIN shuffleLog :
                /\ ~shuffleLog[i].fixup
                /\ shuffleLog[i].after # shuffleLog[i].before
                /\ Inversions(shuffleLog[i].after) % 2 = 0
          /\ Len(shuffleLog) = lastCall.args[1]
          /\ lastCall.args[1] = 0 => grid = prevGrid
          /\ SlotDistance(prevGrid, grid) % 2 = lastCall.args[1] % 2

\* C27 witness: a shuffle of at least two moves has carried the empty slot
\* two cells away and changed the number of inversions.
C27_Witness ==
    /\ lastCall.op = "shuffle" /\ lastCall.args[1] >= 2
    /\ SlotDistance(prevGrid, grid) = 2
    /\ Inversions(grid) # Inversions(prevGrid)

\* the reads of a PuzzleState
Reads == {"getGrid", "getFlatGrid", "findTilePosition", "findEmptySlot",
          "canMove", "isSolved"}

\* the writes a caller makes to the array getGrid returned
CopyWrites == {"write cell", "write row"}

\* what a read returns on the grid g
ReadResult(op, args, g) ==
    IF op = "getGrid" THEN g
    ELSE IF op = "getFlatGrid" THEN [k \in 0..(rows * cols - 1) |-> g[k \div cols][k % cols]]
    ELSE IF op = "findTilePosition"
    THEN (IF CellsHolding(g, args[1]) = {} THEN NoPos
          ELSE CHOOSE p \in CellsHolding(g, args[1]) :
                   \A q \in CellsHolding(g, args[1]) :
                       p[1] * cols + p[2] <= q[1] * cols + q[2])
    ELSE IF op = "findEmptySlot" THEN CHOOSE p \in Cells : g[p[1]][p[2]] = Null
    ELSE IF op = "canMove"
    THEN \E e \in CellsHolding(g, Null) :
             Abs(args[1] - e[1]) + Abs(args[2] - e[2]) = 1
    ELSE g = NewGrid

\* C28: getGrid returns the grid's cells in arrays of its own: no write a
\* caller makes to a cell or a row of what it returned changes the grid of
\* the PuzzleState, a later moveTile does not show in it, and no read
\* (getGrid, getFlatGrid, findTilePosition, findEmptySlot, canMove,
\* isSolved) changes the grid; every read answers for the grid as the moves
\* alone made it.
C28_GetGridIndependent ==
    /\ lastCall.op \in Reads \cup CopyWrites => grid = prevGrid
    /\ lastCall.op = "getGrid" => copy.held /\ copy.cells = grid
    /\ lastCall.op \in Reads =>
          call.result = ReadResult(lastCall.op, lastCall.args, prevGrid)
    /\ lastCall.op = "moveTile" => copy = call.result
    /\ Cardinality(CellsHolding(grid, Null)) = 1

\* C28 witness: after a move a caller took the grid and wrote into a cell
\* of what it was given, which now differs from the grid.
C28_Witness ==
    /\ lastCall.op = "write cell"
    /\ grid # NewGrid
    /\ copy.cells # grid
    /\ call.result = grid

\* the last call was moveTile with a row or a column outside the grid
OutsideCall ==
    /\ call.op = "moveTile"
    /\ \/ call.args[1] \notin 0..(rows - 1)
       \/ call.args[2] \notin 0..(cols - 1)

\* C26: with a row or column of -1 or 3, canMove is false and moveTile
\* leaves the grid unchanged without raising an error, so the 3x3 grid keeps
\* exactly one empty slot.
C26_OutsideIsNotAdjacent ==
    /\ OutsideCall =>
          /\ call.canMove = [result |-> FALSE, threw |-> "none"]
          /\ call.threw = "none"
          /\ grid = prevGrid
    /\ Cardinality({k \in 0..(rows * cols - 1) :
                        grid[indexToPos(k)[1]][indexToPos(k)[2]] = Null}) = 1

\* C25: after any clicks on the nine tiles and presses of the shuffle
\* button every tile 0..7 is shown at the cell where the grid holds its id,
\* and the empty tile 8 at the empty slot.
C25_DisplayMatchesGrid ==
    /\ \A id \in 0..(EmptyTileId - 1) :
          grid[tiles[id][1]][tiles[id][2]] = id
    /\ grid[tiles[EmptyTileId][1]][tiles[EmptyTileId][2]] = Null

----------------------------------------------------------------------------
(* Claims about the simulation. *)

MagSq(v) == v.x * v.x + v.y * v.y

\* C9: every boid's speed is at most maxSpeed, up to the rounding of the
\* arithmetic (two units of the fixed-point grid): at creation, after every
\* Boid.update and so at the end of every tick.
C9_SpeedAtMostMaxSpeed ==
    /\ \A i \in DOMAIN boids : MagSq(boids[i].velocity) <= (maxSpeed + 2) * (maxSpeed + 2)
    /\ \A i \in DOMAIN tickLog :
          MagSq(tickLog[i].updated.velocity) <= (maxSpeed + 2) * (maxSpeed + 2)

\* C9 witness: in the last tick a boid's velocity plus its accumulated
\* acceleration, cursor force of the tick before included, exceeded maxSpeed
\* and was clamped by update.
C9_Witness ==
    /\ ticks >= 2
    /\ \E i \in DOMAIN tickLog :
          LET b == tickLog[i].flocked
          IN  /\ tickLog[i].seen[i].acceleration # Vec(0, 0)
              /\ b.acceleration # tickLog[i].seen[i].acceleration
              /\ MagSq(add(b.velocity, b.acceleration)) > (maxSpeed + 2) * (maxSpeed + 2)
              /\ tickLog[i].updated.velocity # add(b.velocity, b.acceleration)

\* C10: when a tick (a run of Game.update) has ended, every boid's
\* acceleration is (0,0).
C10_AccelerationZeroAfterTick ==
    ticks > 0 => \A i \in DOMAIN boids : boids[i].acceleration = Vec(0, 0)

\* the indices of every boid of the array, in array order
AllBoids(bs) == [k \in 1..Len(bs) |-> k]

\* the indices of the boids of the colour of bs[i], bs[i] itself left out
OthersOfGroup(bs, i) ==
    LET pick(k) == k # i /\ bs[k].color = bs[i].color
    IN  SelectSeq(AllBoids(bs), pick)

\* C11: flocking is group-local: flock leaves a boid with the same
\* acceleration when it is given the boids of every group as when it is given
\* those of its own group, and as when it is given its own group without
\* itself; boids of other colours contribute nothing.
C11_FlockGroupLocal ==
    \A i \in DOMAIN tickLog :
        LET seen == tickLog[i].seen
        IN  /\ flock(seen, i, AllBoids(seen)).acceleration = tickLog[i].flocked.acceleration
            /\ flock(seen, i, OthersOfGroup(seen, i)).acceleration
                   = tickLog[i].flocked.acceleration

\* C11 witness: flock steered a boid by a neighbour of its group while a boid
\* of another colour was within the perception radius.
C11_Witness ==
    \E i \in DOMAIN tickLog :
        LET seen == tickLog[i].seen
        IN  /\ tickLog[i].flocked.acceleration # seen[i].acceleration
            /\ \E j \in DOMAIN seen :
                  /\ seen[j].color # seen[i].color
                  /\ wrappedDistance(seen[i], seen[j]) < Px(PERCEPTION_RADIUS)

\* the distance along one axis of a torus of the given extent
ToroidalDelta(delta, extent) == IF 2 * delta > extent THEN extent - delta ELSE delta

\* the distance of two positions on the torus innerWidth x innerHeight
ToroidalDistance(p, q) ==
    LET tdx == ToroidalDelta(Abs(p.x - q.x), Px(innerWidth))
        tdy == ToroidalDelta(Abs(p.y - q.y), Px(innerHeight))
    IN  Sqrt(tdx * tdx + tdy * tdy)

\* C12: the neighbour distance is toroidal: for every two boids of a group
\* wrappedDistance is the distance on the torus (extent - delta on an axis
\* whose delta exceeds half the extent), so boids at x = 1 and x = W - 1 with
\* the same y are at distance 2; and flock counts as a neighbour every boid
\* of the group nearer than PERCEPTION_RADIUS on the torus.
C12_WrappedDistanceToroidal ==
    \A i \in DOMAIN boids : \A j \in DOMAIN boids :
        (i # j /\ boids[i].color = boids[j].color) =>
            /\ wrappedDistance(boids[i], boids[j])
                   = ToroidalDistance(boids[i].position, boids[j].position)
            /\ ToroidalDistance(boids[i].position, boids[j].position) < Px(PERCEPTION_RADIUS)
                   => flockLoop(boids, i, <<j>>, 1,
                                [alignment |-> Vec(0, 0), cohesion |-> Vec(0, 0),
                                 separation |-> Vec(0, 0), total |-> 0]).total = 1

\* C13: after every Boid.update both coordinates of the position are inside
\* the world: 0 <= x < innerWidth and 0 <= y < innerHeight.
C13_PositionInsideWorld ==
    \A i \in DOMAIN tickLog :
        LET p == tickLog[i].updated.position
        IN  /\ 0 <= p.x /\ p.x < Px(innerWidth)
            /\ 0 <= p.y /\ p.y < Px(innerHeight)

\* the colour group of boid i of the array bs, as Game.update passes it
GroupOf(bs, i) == colorBoidsOf(bs, bs[i].color)

\* C21: in every tick the cursor flow force of a boid is applied before the
\* boid's update, so that the update of the same tick integrates it: the
\* boid a tick leaves is the one that applying the flow and then updating
\* gives.
C21_FlowBeforeUpdate ==
    \A i \in DOMAIN tickLog :
        LET seen == tickLog[i].seen
            forced == [seen EXCEPT ![i] =
                          applyFlow(seen[i], tickLog[i].mouse, tickLog[i].circular)]
        IN  tickLog[i].after = update(forced, i, GroupOf(forced, i))

\* C22: in a tick every boid steers by the positions and velocities the
\* boids of its group had when the tick began (a snapshot), whatever its
\* place in the iteration: its update is the update computed on the array as
\* it was at the start of the tick.
C22_SnapshotRead ==
    \A i \in DOMAIN tickLog :
        LET snapshot == tickLog[1].seen
        IN  tickLog[i].updated = update(snapshot, i, GroupOf(snapshot, i))

\* the array of boids as boid i's turn in the last tick left it
ArrayAfterTurn(i) == IF i < Len(tickLog) THEN tickLog[i + 1].seen ELSE boids

DistanceSq(p, q) == (p.x - q.x) * (p.x - q.x) + (p.y - q.y) * (p.y - q.y)

\* C24: in a tick every boid, of every group, gets the cursor force of the
\* one policy the toggle selects (circular if isCircularFlow, directional if
\* not) when it is nearer than 150 to the pointer, and no cursor force when
\* it is not; the toggle and the pointer are the same for all the boids of
\* the tick.
C24_OnePolicyPerTick ==
    \A i \in DOMAIN tickLog :
        LET b == tickLog[i].updated
            mouse == tickLog[i].mouse
        IN  /\ tickLog[i].circular = tickLog[1].circular
            /\ tickLog[i].mouse = tickLog[1].mouse
            /\ tickLog[i].after =
                   (IF DistanceSq(mouse, b.position) < Px(150) * Px(150)
                    THEN [b EXCEPT !.acceleration =
                             add(b.acceleration,
                                 IF tickLog[i].circular THEN circularFlowForce(b, mouse)
                                 ELSE directionalFlowForce(b, mouse))]
                    ELSE b)

\* C24 witness: in one tick a boid in range of the pointer got the circular
\* force, which is not the directional one, and a boid out of range got none.
C24_Witness ==
    /\ \E i \in DOMAIN tickLog :
          /\ tickLog[i].circular
          /\ DistanceSq(tickLog[i].mouse, tickLog[i].updated.position) < Px(150) * Px(150)
          /\ tickLog[i].after.acceleration # Vec(0, 0)
          /\ circularFlowForce(tickLog[i].updated, tickLog[i].mouse)
                # directionalFlowForce(tickLog[i].updated, tickLog[i].mouse)
    /\ \E j \in DOMAIN tickLog :
          /\ DistanceSq(tickLog[j].mouse, tickLog[j].updated.position) >= Px(150) * Px(150)
          /\ tickLog[j].after = tickLog[j].updated

----------------------------------------------------------------------------
(* Claims about the methods of a Boid. *)

\* C14: attractTo(point, strength) adds to the acceleration a force that
\* points from the boid's position toward point (its dot product with
\* point - position is not negative) and is at most strength long, up to the
\* rounding of the arithmetic.
C14_AttractTowardPoint ==
    (call.op = "attractTo" /\ ~call.threw) =>
        LET b == call.before[1]
            force == sub(boids[1].acceleration, b.acceleration)
            toward == sub(call.args[1][1], b.position)
        IN  /\ force.x * toward.x + force.y * toward.y >= 0
            /\ MagSq(force) <= (call.args[2] + 2) * (call.args[2] + 2)

\* C15: applyForce with an absent force throws and leaves every boid as it
\* was; with a force given it does not throw, adds the force component by
\* component to the acceleration and changes nothing else.
C15_ApplyForce ==
    call.op = "applyForce" =>
        IF call.args[1] = Absent
        THEN call.threw /\ boids = call.before
        ELSE LET b == call.before[1]
                 force == call.args[1][1]
             IN  /\ ~call.threw
                 /\ boids[1].acceleration.x = b.acceleration.x + force.x
                 /\ boids[1].acceleration.y = b.acceleration.y + force.y
                 /\ boids = [call.before EXCEPT ![1].acceleration = boids[1].acceleration]

\* C15 witness: a force was given to a boid whose acceleration was not zero.
C15_Witness ==
    /\ call.op = "applyForce" /\ call.args[1] # Absent
    /\ call.before[1].acceleration # Vec(0, 0)
    /\ call.before[1].acceleration # boids[1].acceleration

\* the elements of a `boids` argument that are boids
ProperElements(elems) ==
    LET isBoid(e) == e # Malformed
    IN  SelectSeq(elems, isBoid)

\* C16: flock and update throw exactly when their argument is no array,
\* and then change nothing; given an array they leave the boid as they would
\* if the elements that are not boids were absent from the array.
C16_MalformedSkipped ==
    call.op \in {"flock", "update"} =>
        LET boidsArg == call.args[1]
        IN  /\ call.threw <=> ~boidsArg.isArray
            /\ call.threw => boids = call.before
            /\ ~call.threw =>
                  boids = [call.before EXCEPT ![1] =
                              IF call.op = "flock"
                              THEN flock(call.before, 1, ProperElements(boidsArg.elems))
                              ELSE update(call.before, 1, ProperElements(boidsArg.elems))]

\* C16 witness: update was given an array holding a neighbour that steered
\* the boid and an element that is not a boid.
C16_Witness ==
    /\ call.op = "update" /\ ~call.threw
    /\ \E k \in DOMAIN call.args[1].elems : call.args[1].elems[k] = Malformed
    /\ boids[1] # update(call.before, 1, << >>)

\* no element of elems is a boid of the group of bs[self], other than
\* itself, within PERCEPTION_RADIUS
NoNeighborQualifies(bs, self, elems) ==
    \A k \in DOMAIN elems :
        \/ elems[k] = Malformed
        \/ elems[k] = self
        \/ bs[elems[k]].color # bs[self].color
        \/ wrappedDistance(bs[self], bs[elems[k]]) >= Px(PERCEPTION_RADIUS)

----------------------------------------------------------------------------
(* Claims about the methods of a Vector. *)

\* C19: a zero vector is left (0,0) by normalize, by setMag and by limit,
\* div by 0 leaves any vector as it was, and angleBetween returns 0 when the
\* vector or its argument is (0,0); no call divides by zero.
C19_ZeroVectorsSafe ==
    /\ (call.op \in {"normalize", "setMag", "limit"} /\ call.before = Vec(0, 0)) =>
           vec = Vec(0, 0) /\ call.returned = Vec(0, 0)
    /\ (call.op = "div" /\ call.args[1] = 0) => vec = call.before
    /\ (call.op = "angleBetween"
           /\ (call.before = Vec(0, 0) \/ call.args[1] = Vec(0, 0))) =>
           call.returned = 0 /\ vec = call.before

\* C19 witness: in the last of the calls the receiver was (0,0), of setMag
\* with a magnitude that is not zero or of angleBetween with a vector that
\* is not zero.
C19_Witness ==
    /\ ops = MaxCalls
    /\ call.before = Vec(0, 0)
    /\ \/ call.op = "setMag" /\ call.args[1] # 0
       \/ call.op = "angleBetween" /\ call.args[1] # Vec(0, 0)

====
